---- MODULE Spec2Model ----
(***************************************************************************)
(* The location toggle manager (LocationToggleManager, lib/locationToggle) *)
(* together with the collaborators it drives: the device geolocation API,  *)
(* the profile row of the bound user in the profile store, and the         *)
(* local-storage key holding the toggle intent.                            *)
(*                                                                         *)
(* Every asynchronous method is split at its await points.  An operation   *)
(* that is suspended is an element of the bag `ops`; the position request   *)
(* and the profile update it waits for are resolved by separate steps, so  *)
(* that other callbacks interleave exactly where the event loop lets them. *)
(* Coordinates are integers in thousandths of a degree.                    *)
(*                                                                         *)
(* The resolver get_users_in_location_bucket is a function of the profile  *)
(* table and its arguments; it is checked under ResolverSpec, which draws  *)
(* the table from a bounded set and then runs queries against it.          *)
(***************************************************************************)
EXTENDS Integers, FiniteSets, Sequences, Bags, TLC

VARIABLES
  isEnabled,        \* state.isEnabled
  isTracking,       \* state.isTracking
  watchId,          \* state.watchId
  intervalId,       \* state.intervalId
  currentLocation,  \* state.currentLocation
  userId,           \* this.userId
  onLocationUpdate, \* this.onLocationUpdate
  onError,          \* this.onError
  storage,          \* localStorage[LOCATION_TOGGLE_STORAGE_KEY]
  profile,          \* the bound user's row of `profiles`: latitude, longitude
  watches,          \* ids of the geolocation watches live on the platform
  timers,           \* ids of the interval timers live on the platform
  capable,          \* isGeolocationSupported() && isSecureContext()
  ops,              \* the suspended asynchronous operations
  ev,               \* what the latest step did (calls, results, notifications)
  profiles,         \* the table `profiles` the resolver reads: id -> row
  rpc,              \* the arguments of the latest get_users_in_location_bucket call
  returned,         \* the rows that call returned, in order
  oldLocation,      \* the first argument of the latest hasLocationChanged call
  newLocation,      \* its second argument
  changed,          \* what that call returned
  deviceBucket      \* the bucket the device has come to rest in, if it has

vars == <<isEnabled, isTracking, watchId, intervalId, currentLocation, userId,
          onLocationUpdate, onError, storage, profile, watches, timers,
          capable, ops, ev, profiles, rpc, returned,
          oldLocation, newLocation, changed, deviceBucket>>

mgr == <<isEnabled, isTracking, watchId, intervalId, currentLocation>>
platform == <<watches, timers>>
callbacks == <<onLocationUpdate, onError>>
resolver == <<profiles, rpc, returned>>
comparison == <<oldLocation, newLocation, changed>>

\* How many asynchronous operations may be suspended at once.
MaxOps == 2

\* null and undefined are the empty set, a present value v is {v}.
None == {}
Some(v) == {v}
The(s) == CHOOSE v \in s : TRUE

NoUser == "null"
User == "u1"
NoCallback == "undefined"

\* Raw device positions <<latitude, longitude>>: the first two share a
\* 2-decimal bucket, the third lies in the bucket next to it in longitude.
RawPositions == { <<12972, 77594>>, <<12974, 77592>>, <<12973, 77596>> }

Loc(lat, lon) == [latitude |-> lat, longitude |-> lon]

\* Both coordinate fields null.
NullCoords == [latitude |-> None, longitude |-> None]

\* Callback pairs a caller may bind: <<onLocationUpdate, onError>>.
CallbackPairs == { <<NoCallback, NoCallback>>, <<"cb", "cb">> }

\* Callback pairs setCallbacks may bind: those of initialize and the handlers
\* of a recreated component.
NewCallbackPairs == CallbackPairs \cup { <<"cb2", "cb2">> }

----------------------------------------------------------------------------
(* Pure helpers of lib/location *)

Abs(x) == IF x < 0 THEN -x ELSE x

\* toFixed(2) as it would be if it cut the digits off instead of rounding.
ToFixed2Truncates(x) == LET r == (Abs(x) \div 10) * 10 IN IF x < 0 THEN -r ELSE r

\* Number(x.toFixed(2)) on thousandths of a degree: the nearest hundredth.
ToFixed2(x) == LET r == ((Abs(x) + 5) \div 10) * 10 IN IF x < 0 THEN -r ELSE r

\* The UserLocation built from a GeolocationPosition (rounded at capture).
Captured(raw) == Loc(ToFixed2(raw[1]), ToFixed2(raw[2]))

\* The patch saveUserLocation sends for a UserLocation.
SavedCoords(l) ==
  [latitude |-> Some(ToFixed2(l.latitude)), longitude |-> Some(ToFixed2(l.longitude))]

\* hasLocationChanged as it would be if it compared the coordinates as given.
hasLocationChangedUnrounded(old, new) ==
  old.latitude # new.latitude \/ old.longitude # new.longitude

\* hasLocationChanged as it would be if it compared the latitudes alone.
hasLatitudeChanged(old, new) == ToFixed2(old.latitude) # ToFixed2(new.latitude)

hasLocationChanged(old, new) ==
  \/ ToFixed2(old.latitude) # ToFixed2(new.latitude)
  \/ ToFixed2(old.longitude) # ToFixed2(new.longitude)

\* The patch of turnOff as it would be if it nulled the latitude alone.
ClearedLatitudeOnly == [latitude |-> None]

\* The patch turnOff sends.
ClearedCoords == NullCoords

\* The patch handleLogout sends.
LogoutCoords == NullCoords

----------------------------------------------------------------------------
(* Suspended operations *)

Idle == [kind |-> "idle", pc |-> "idle", raw |-> None, loc |-> None,
         write |-> NullCoords, nreq |-> 0, nwrite |-> 0]

InFlight == BagToSet(ops)

\* Room for one more suspended operation.
Room == BagCardinality(ops) < MaxOps

Suspend(op) == ops' = ops (+) SetToBag({op})

Finish(op) == ops' = ops (-) SetToBag({op})

Resume(op, next) == ops' = (ops (-) SetToBag({op})) (+) SetToBag({next})

\* The operation waits for requestUserLocation().  (raw is the device's raw
\* position behind loc, kept for turnOn and restoration.)
AwaitPosition(kind) == [Idle EXCEPT !.kind = kind, !.pc = "awaitPos", !.nreq = 1]

\* The operation has got location l, has called saveUserLocation(userId, l)
\* and waits for the reply to the profile update.
AwaitSave(op, l) ==
  [op EXCEPT !.pc = "updateSent", !.loc = Some(l), !.write = SavedCoords(l),
             !.nwrite = @ + 1]

\* What a step handed to the manager's callers: the operation and the step
\* that returned, the result ("ok" or "fail" of a {success, error?} result,
\* "dropped" or "suppressed" for a sample that ends in the gate, "none" for a
\* void method), the position requests and profile updates the operation
\* issued, the onLocationUpdate call (notified, with arg None for null, to
\* the callback bound at that moment) and the onError callback that ran;
\* thrown marks a failure that came from an exception; sample is the
\* location handleLocationUpdate was given when it ended in the gate or in
\* a failed write.
Event(op, step, result, nreq, nwrite, arg, notified, error) ==
  [op |-> op, step |-> step, result |-> result, nreq |-> nreq, nwrite |-> nwrite,
   sample |-> None, thrown |-> FALSE,
   notified |-> notified /\ onLocationUpdate # NoCallback,
   to |-> IF notified THEN onLocationUpdate ELSE NoCallback,
   arg |-> IF notified /\ onLocationUpdate # NoCallback THEN arg ELSE None,
   error |-> error]

Quiet(op, step, result, nreq, nwrite) ==
  Event(op, step, result, nreq, nwrite, None, FALSE, NoCallback)

\* What handleLocationUpdate did with sample l when it ended in the gate.
Gated(op, step, result, nreq, l) ==
  [Quiet(op, step, result, nreq, 0) EXCEPT !.sample = Some(l)]

\* The event of an operation that ends because its position request failed:
\* thrown tells an exception from an error result.
Failed(event, got) == [event EXCEPT !.thrown = got.thrown]

\* A step that returns nothing to a caller and runs no callback.
Silent == [op |-> "none", step |-> "none", result |-> "none", nreq |-> 0, nwrite |-> 0,
           sample |-> None, thrown |-> FALSE, notified |-> FALSE, to |-> NoCallback,
           arg |-> None,
           error |-> NoCallback]

----------------------------------------------------------------------------
(* startTracking / stopTracking *)

\* The handle the platform hands out: the lowest id not live.
NewId(live) == CHOOSE n \in 1..(Cardinality(live) + 1) :
                 n \notin live /\ \A m \in 1..(n - 1) : m \in live

\* startTracking as it would be without the already-tracking early return.
StartTrackingAgain ==
  /\ IF capable
     THEN /\ watches' = watches \cup {NewId(watches)}
          /\ watchId' = Some(NewId(watches))
     ELSE UNCHANGED <<watches, watchId>>
  /\ timers' = timers \cup {NewId(timers)}
  /\ intervalId' = Some(NewId(timers))
  /\ isTracking' = TRUE

StartTracking ==
  IF isTracking
  THEN UNCHANGED <<isTracking, watchId, intervalId, watches, timers>>
  ELSE /\ IF capable
          THEN /\ watches' = watches \cup {NewId(watches)}
               /\ watchId' = Some(NewId(watches))
          ELSE UNCHANGED <<watches, watchId>>
       /\ timers' = timers \cup {NewId(timers)}
       /\ intervalId' = Some(NewId(timers))
       /\ isTracking' = TRUE

\* The onError callback startTracking runs when the watch cannot start.
StartTrackingError == IF ~isTracking /\ ~capable THEN onError ELSE NoCallback

StopTracking ==
  IF ~isTracking
  THEN UNCHANGED <<isTracking, watchId, intervalId, watches, timers>>
  ELSE /\ watches' = watches \ watchId
       /\ watchId' = None
       /\ timers' = timers \ intervalId
       /\ intervalId' = None
       /\ isTracking' = FALSE

----------------------------------------------------------------------------
(* The environment: position requests and the profile store *)

\* How a position request may end: a raw position, an error the device
\* reports, or an exception (thrown); requestUserLocation's catch and the
\* caller's turn both into a failure.  Without the capability the request
\* fails before it reaches the device.
PositionOutcomes ==
  IF capable
  THEN [ok : {TRUE}, thrown : {FALSE}, raw : RawPositions]
         \cup [ok : {FALSE}, thrown : BOOLEAN, raw : {<<0, 0>>}]
  ELSE {[ok |-> FALSE, thrown |-> FALSE, raw |-> <<0, 0>>]}

\* update(patch).eq('id', userId): the fields the patch names are set, the
\* others keep their value.
Patched(row, patch) ==
  [f \in DOMAIN row |-> IF f \in DOMAIN patch THEN patch[f] ELSE row[f]]

\* The profile store serves the update op sent.
ProfileUpdate(op) ==
  /\ op.pc = "updateSent"
  /\ profile' = Patched(profile, op.write)
  /\ Resume(op, [op EXCEPT !.pc = "updateApplied"])
  /\ ev' = Silent
  /\ UNCHANGED <<mgr, userId, callbacks, storage, platform, capable>>

\* The reply to op's update has arrived: the success reply of an update the
\* store applied, or an error for an update that never changed the row.
Replied(op) == op.pc \in {"updateSent", "updateApplied"}

\* The reply reports no error.
UpdateOk(op) == op.pc = "updateApplied"

----------------------------------------------------------------------------
(* initialize, restoreLocationTracking *)

\* initialize() as it would be if it only bound the user and the callbacks.
InitializeOnlyBinds(cbs) ==
  /\ userId' = User
  /\ onLocationUpdate' = cbs[1]
  /\ onError' = cbs[2]
  /\ ev' = Quiet("initialize", "call", "none", 0, 0)
  /\ UNCHANGED <<mgr, storage, profile, platform, capable, ops>>

Initialize(cbs) ==
  /\ isEnabled => Room
  /\ userId' = User
  /\ onLocationUpdate' = cbs[1]
  /\ onError' = cbs[2]
  /\ IF isEnabled
     THEN Suspend(AwaitPosition("restore"))
     ELSE UNCHANGED ops
  /\ ev' = Quiet("initialize", "call", "none", IF isEnabled THEN 1 ELSE 0, 0)
  /\ UNCHANGED <<mgr, storage, profile, platform, capable>>

\* The restoration as it would be if a failed position request switched the
\* toggle off.
RestorePositionDisables(op, got) ==
  /\ op.kind = "restore" /\ op.pc = "awaitPos"
  /\ IF got.ok
     THEN /\ currentLocation' = Some(Captured(got.raw))
          /\ Resume(op, AwaitSave([op EXCEPT !.raw = Some(got.raw)], Captured(got.raw)))
          /\ ev' = Silent
          /\ UNCHANGED <<isEnabled, storage>>
     ELSE /\ Finish(op)
          /\ isEnabled' = FALSE
          /\ storage' = "false"
          /\ ev' = Failed(Event("restore", "position", "none", op.nreq, 0,
                                None, FALSE, onError), got)
          /\ UNCHANGED currentLocation
  /\ UNCHANGED <<isTracking, watchId, intervalId, userId, callbacks,
                 profile, platform, capable>>

\* The position request of a restoration resolves.
RestorePosition(op, got) ==
  /\ op.kind = "restore" /\ op.pc = "awaitPos"
  /\ IF got.ok
     THEN /\ currentLocation' = Some(Captured(got.raw))
          /\ Resume(op, AwaitSave([op EXCEPT !.raw = Some(got.raw)], Captured(got.raw)))
          /\ ev' = Silent
     ELSE /\ Finish(op)
          /\ ev' = Failed(Event("restore", "position", "none", op.nreq, 0,
                                None, FALSE, onError), got)
          /\ UNCHANGED currentLocation
  /\ UNCHANGED <<isEnabled, isTracking, watchId, intervalId, userId, callbacks,
                 storage, profile, platform, capable>>

\* saveUserLocation has returned to a restoration; its result is not looked at.
RestoreSaved(op) ==
  /\ op.kind = "restore" /\ Replied(op)
  /\ StartTracking
  /\ Finish(op)
  /\ ev' = Event("restore", "saved", "none", op.nreq, op.nwrite,
                 op.loc, TRUE, StartTrackingError)
  /\ UNCHANGED <<isEnabled, currentLocation, userId, callbacks, storage, profile, capable>>

----------------------------------------------------------------------------
(* turnOn *)

\* turnOn() as it would be if the already-enabled path returned at once,
\* without looking at isTracking.
TurnOnCallWithoutRestart ==
  /\ (userId # NoUser /\ ~isEnabled /\ capable) => Room
  /\ IF userId = NoUser \/ (~isEnabled /\ ~capable)
     THEN /\ ev' = Quiet("turnOn", "call", "fail", 0, 0)
          /\ UNCHANGED ops
     ELSE IF isEnabled
     THEN /\ ev' = Quiet("turnOn", "call", "ok", 0, 0)
          /\ UNCHANGED ops
     ELSE /\ Suspend(AwaitPosition("turnOn"))
          /\ ev' = Silent
  /\ UNCHANGED <<mgr, platform, userId, callbacks, storage, profile, capable>>

\* turnOn() as it would be without the capability check.
TurnOnCallUnchecked ==
  /\ (userId # NoUser /\ ~isEnabled) => Room
  /\ IF userId = NoUser
     THEN /\ ev' = Quiet("turnOn", "call", "fail", 0, 0)
          /\ UNCHANGED <<mgr, platform, ops>>
     ELSE IF isEnabled
     THEN /\ StartTracking
          /\ ev' = Event("turnOn", "call", "ok", 0, 0, None, FALSE, StartTrackingError)
          /\ UNCHANGED <<isEnabled, currentLocation, ops>>
     ELSE /\ Suspend(AwaitPosition("turnOn"))
          /\ ev' = Silent
          /\ UNCHANGED <<mgr, platform>>
  /\ UNCHANGED <<userId, callbacks, storage, profile, capable>>

TurnOnCall ==
  /\ (userId # NoUser /\ ~isEnabled /\ capable) => Room
  /\ IF userId = NoUser
     THEN /\ ev' = Quiet("turnOn", "call", "fail", 0, 0)
          /\ UNCHANGED <<mgr, platform, ops>>
     ELSE IF isEnabled
     THEN /\ StartTracking
          /\ ev' = Event("turnOn", "call", "ok", 0, 0, None, FALSE, StartTrackingError)
          /\ UNCHANGED <<isEnabled, currentLocation, ops>>
     ELSE IF ~capable
     THEN /\ ev' = Quiet("turnOn", "call", "fail", 0, 0)
          /\ UNCHANGED <<mgr, platform, ops>>
     ELSE /\ Suspend(AwaitPosition("turnOn"))
          /\ ev' = Silent
          /\ UNCHANGED <<mgr, platform>>
  /\ UNCHANGED <<userId, callbacks, storage, profile, capable>>

\* turnOn() as it would be without its try/catch, where an exception from
\* the position request leaves turnOn() as a rejection.
TurnOnPositionUncaught(op, got) ==
  /\ op.kind = "turnOn" /\ op.pc = "awaitPos"
  /\ IF got.ok
     THEN /\ Resume(op, AwaitSave([op EXCEPT !.raw = Some(got.raw)], Captured(got.raw)))
          /\ ev' = Silent
     ELSE /\ Finish(op)
          /\ ev' = Failed(Quiet("turnOn", "position",
                                IF got.thrown THEN "raised" ELSE "fail", op.nreq, 0), got)
  /\ UNCHANGED <<mgr, userId, callbacks, storage, profile, platform, capable>>

TurnOnPosition(op, got) ==
  /\ op.kind = "turnOn" /\ op.pc = "awaitPos"
  /\ IF got.ok
     THEN /\ Resume(op, AwaitSave([op EXCEPT !.raw = Some(got.raw)], Captured(got.raw)))
          /\ ev' = Silent
     ELSE /\ Finish(op)
          /\ ev' = Failed(Quiet("turnOn", "position", "fail", op.nreq, 0), got)
  /\ UNCHANGED <<mgr, userId, callbacks, storage, profile, platform, capable>>

\* turnOn() as it would be if it flipped isEnabled and persisted the intent
\* before looking at the result of saveUserLocation.
TurnOnSavedEnablesFirst(op) ==
  /\ op.kind = "turnOn" /\ Replied(op)
  /\ Finish(op)
  /\ isEnabled' = TRUE
  /\ storage' = "true"
  /\ IF UpdateOk(op)
     THEN /\ currentLocation' = op.loc
          /\ StartTracking
          /\ ev' = Event("turnOn", "saved", "ok", op.nreq, op.nwrite,
                         op.loc, TRUE, StartTrackingError)
     ELSE /\ ev' = Quiet("turnOn", "saved", "fail", op.nreq, op.nwrite)
          /\ UNCHANGED <<isTracking, watchId, intervalId, currentLocation, platform>>
  /\ UNCHANGED <<userId, callbacks, profile, capable>>

TurnOnSaved(op) ==
  /\ op.kind = "turnOn" /\ Replied(op)
  /\ Finish(op)
  /\ IF UpdateOk(op)
     THEN /\ isEnabled' = TRUE
          /\ currentLocation' = op.loc
          /\ storage' = "true"
          /\ StartTracking
          /\ ev' = Event("turnOn", "saved", "ok", op.nreq, op.nwrite,
                         op.loc, TRUE, StartTrackingError)
     ELSE /\ ev' = Quiet("turnOn", "saved", "fail", op.nreq, op.nwrite)
          /\ UNCHANGED <<mgr, storage, platform>>
  /\ UNCHANGED <<userId, callbacks, profile, capable>>

----------------------------------------------------------------------------
(* turnOff *)

\* turnOff has stopped tracking, has sent the update that nulls both
\* coordinates and waits for the reply.
AwaitClear ==
  [Idle EXCEPT !.kind = "turnOff", !.pc = "updateSent", !.write = ClearedCoords,
               !.nwrite = 1]

\* turnOff() as it would be without the already-off early return.
TurnOffCallAlwaysClears ==
  /\ userId # NoUser => Room
  /\ IF userId = NoUser
     THEN /\ ev' = Quiet("turnOff", "call", "fail", 0, 0)
          /\ UNCHANGED <<isTracking, watchId, intervalId, platform, ops>>
     ELSE /\ StopTracking
          /\ Suspend(AwaitClear)
          /\ ev' = Silent
  /\ UNCHANGED <<isEnabled, currentLocation, userId, callbacks, storage, profile, capable>>

\* turnOff() as it would be if it aborted the operations in flight.
TurnOffCallAborts ==
  /\ IF userId = NoUser
     THEN /\ ev' = Quiet("turnOff", "call", "fail", 0, 0)
          /\ UNCHANGED <<isTracking, watchId, intervalId, platform, ops>>
     ELSE IF ~isEnabled
     THEN /\ ev' = Quiet("turnOff", "call", "ok", 0, 0)
          /\ UNCHANGED <<isTracking, watchId, intervalId, platform, ops>>
     ELSE /\ StopTracking
          /\ ops' = SetToBag({AwaitClear})
          /\ ev' = Silent
  /\ UNCHANGED <<isEnabled, currentLocation, userId, callbacks, storage, profile, capable>>

TurnOffCall ==
  /\ (userId # NoUser /\ isEnabled) => Room
  /\ IF userId = NoUser
     THEN /\ ev' = Quiet("turnOff", "call", "fail", 0, 0)
          /\ UNCHANGED <<isTracking, watchId, intervalId, platform, ops>>
     ELSE IF ~isEnabled
     THEN /\ ev' = Quiet("turnOff", "call", "ok", 0, 0)
          /\ UNCHANGED <<isTracking, watchId, intervalId, platform, ops>>
     ELSE /\ StopTracking
          /\ Suspend(AwaitClear)
          /\ ev' = Silent
  /\ UNCHANGED <<isEnabled, currentLocation, userId, callbacks, storage, profile, capable>>

\* turnOff() as it would be if a failed write rolled back by restarting
\* tracking.
TurnOffClearedRestarts(op) ==
  /\ op.kind = "turnOff" /\ Replied(op)
  /\ Finish(op)
  /\ IF UpdateOk(op)
     THEN /\ isEnabled' = FALSE
          /\ currentLocation' = None
          /\ storage' = "false"
          /\ ev' = Event("turnOff", "saved", "ok", 0, op.nwrite, None, TRUE, NoCallback)
          /\ UNCHANGED <<isTracking, watchId, intervalId, platform>>
     ELSE /\ StartTracking
          /\ ev' = Quiet("turnOff", "saved", "fail", 0, op.nwrite)
          /\ UNCHANGED <<isEnabled, currentLocation, storage>>
  /\ UNCHANGED <<userId, callbacks, profile, capable>>

TurnOffCleared(op) ==
  /\ op.kind = "turnOff" /\ Replied(op)
  /\ Finish(op)
  /\ IF UpdateOk(op)
     THEN /\ isEnabled' = FALSE
          /\ currentLocation' = None
          /\ storage' = "false"
          /\ ev' = Event("turnOff", "saved", "ok", 0, op.nwrite, None, TRUE, NoCallback)
     ELSE /\ ev' = Quiet("turnOff", "saved", "fail", 0, op.nwrite)
          /\ UNCHANGED <<isEnabled, currentLocation, storage>>
  /\ UNCHANGED <<isTracking, watchId, intervalId, userId, callbacks, profile,
                 platform, capable>>

----------------------------------------------------------------------------
(* handleLocationUpdate, the watch and the periodic timer *)

\* The guard of handleLocationUpdate as it would be if it never looked at
\* the toggle or the bound user.
GateIgnoresToggle(l) ==
  IF currentLocation = None \/ hasLocationChanged(The(currentLocation), l)
  THEN "write"
  ELSE "suppressed"

\* What handleLocationUpdate decides for a sample before any await: "dropped"
\* while the toggle is off or no user is bound, "write" when there is no
\* current location or the sample's bucket differs from it, else "suppressed".
Gate(l) ==
  IF ~isEnabled \/ userId = NoUser THEN "dropped"
  ELSE IF currentLocation = None \/ hasLocationChanged(The(currentLocation), l)
       THEN "write"
       ELSE "suppressed"

\* The live watch delivers a sample to handleLocationUpdate.
WatchSample(raw) ==
  /\ watches # {}
  /\ IF Gate(Captured(raw)) = "write"
     THEN /\ Room
          /\ Suspend(AwaitSave([Idle EXCEPT !.kind = "handle"], Captured(raw)))
          /\ ev' = Silent
     ELSE /\ ev' = Gated("handle", "call", Gate(Captured(raw)), 0, Captured(raw))
          /\ UNCHANGED ops
  /\ UNCHANGED <<mgr, userId, callbacks, storage, profile, platform, capable>>

\* The live watch reports an error.
WatchError ==
  /\ watches # {}
  /\ ev' = Event("watch", "error", "none", 0, 0, None, FALSE, onError)
  /\ UNCHANGED <<mgr, userId, callbacks, storage, profile, platform, capable, ops>>

\* handleLocationUpdate as it would be if it took the sample for the current
\* location whether or not the write succeeded.
HandleSavedAdoptsSample(op) ==
  /\ op.kind = "handle" /\ Replied(op)
  /\ Finish(op)
  /\ currentLocation' = op.loc
  /\ ev' = IF UpdateOk(op)
           THEN Event("handle", "saved", "ok", op.nreq, op.nwrite, op.loc, TRUE, NoCallback)
           ELSE [Quiet("handle", "saved", "fail", op.nreq, op.nwrite)
                   EXCEPT !.sample = op.loc]
  /\ UNCHANGED <<isEnabled, isTracking, watchId, intervalId, userId, callbacks,
                 storage, profile, platform, capable>>

\* saveUserLocation has returned to handleLocationUpdate.
HandleSaved(op) ==
  /\ op.kind = "handle" /\ Replied(op)
  /\ Finish(op)
  /\ IF UpdateOk(op)
     THEN /\ currentLocation' = op.loc
          /\ ev' = Event("handle", "saved", "ok", op.nreq, op.nwrite, op.loc, TRUE, NoCallback)
     ELSE /\ ev' = [Quiet("handle", "saved", "fail", op.nreq, op.nwrite)
                      EXCEPT !.sample = op.loc]
          /\ UNCHANGED currentLocation
  /\ UNCHANGED <<isEnabled, isTracking, watchId, intervalId, userId, callbacks,
                 storage, profile, platform, capable>>

\* The interval timer fires: updateLocationPeriodically.
TimerTick ==
  /\ timers # {}
  /\ IF ~isEnabled \/ userId = NoUser
     THEN /\ ev' = Quiet("periodic", "call", "dropped", 0, 0)
          /\ UNCHANGED ops
     ELSE /\ Room
          /\ Suspend(AwaitPosition("periodic"))
          /\ ev' = Silent
  /\ UNCHANGED <<mgr, userId, callbacks, storage, profile, platform, capable>>

\* The position request of a periodic update resolves; a position goes
\* through handleLocationUpdate, where the operation carries on.
PeriodicPosition(op, got) ==
  /\ op.kind = "periodic" /\ op.pc = "awaitPos"
  /\ IF got.ok /\ Gate(Captured(got.raw)) = "write"
     THEN /\ Resume(op, AwaitSave([op EXCEPT !.kind = "handle"], Captured(got.raw)))
          /\ ev' = Silent
     ELSE /\ Finish(op)
          /\ ev' = IF got.ok
                   THEN Gated("periodic", "position", Gate(Captured(got.raw)), op.nreq,
                              Captured(got.raw))
                   ELSE Failed(Quiet("periodic", "position", "fail", op.nreq, 0), got)
  /\ UNCHANGED <<mgr, userId, callbacks, storage, profile, platform, capable>>

----------------------------------------------------------------------------
(* refreshLocation *)

\* refreshLocation() as it would be if it only looked for a bound user.
RefreshCallIgnoresToggle ==
  /\ IF userId = NoUser
     THEN /\ ev' = Quiet("refresh", "call", "fail", 0, 0)
          /\ UNCHANGED ops
     ELSE /\ Room
          /\ Suspend(AwaitPosition("refresh"))
          /\ ev' = Silent
  /\ UNCHANGED <<mgr, userId, callbacks, storage, profile, platform, capable>>

RefreshCall ==
  /\ IF ~isEnabled \/ userId = NoUser
     THEN /\ ev' = Quiet("refresh", "call", "fail", 0, 0)
          /\ UNCHANGED ops
     ELSE /\ Room
          /\ Suspend(AwaitPosition("refresh"))
          /\ ev' = Silent
  /\ UNCHANGED <<mgr, userId, callbacks, storage, profile, platform, capable>>

RefreshPosition(op, got) ==
  /\ op.kind = "refresh" /\ op.pc = "awaitPos"
  /\ IF got.ok
     THEN /\ Resume(op, AwaitSave(op, Captured(got.raw)))
          /\ ev' = Silent
     ELSE /\ Finish(op)
          /\ ev' = Failed(Quiet("refresh", "position", "fail", op.nreq, 0), got)
  /\ UNCHANGED <<mgr, userId, callbacks, storage, profile, platform, capable>>

RefreshSaved(op) ==
  /\ op.kind = "refresh" /\ Replied(op)
  /\ Finish(op)
  /\ IF UpdateOk(op)
     THEN /\ currentLocation' = op.loc
          /\ ev' = Event("refresh", "saved", "ok", op.nreq, op.nwrite, op.loc, TRUE, NoCallback)
     ELSE /\ ev' = Quiet("refresh", "saved", "fail", op.nreq, op.nwrite)
          /\ UNCHANGED currentLocation
  /\ UNCHANGED <<isEnabled, isTracking, watchId, intervalId, userId, callbacks,
                 storage, profile, platform, capable>>

----------------------------------------------------------------------------
(* setCallbacks, cleanup, clearPersistedState, logout *)

\* setCallbacks() as it would be if rebinding tore tracking down.
SetCallbacksStopsTracking(cbs) ==
  /\ StopTracking
  /\ onLocationUpdate' = cbs[1]
  /\ onError' = cbs[2]
  /\ ev' = Quiet("setCallbacks", "call", "none", 0, 0)
  /\ UNCHANGED <<isEnabled, currentLocation, userId, storage, profile, capable, ops>>

SetCallbacks(cbs) ==
  /\ onLocationUpdate' = cbs[1]
  /\ onError' = cbs[2]
  /\ ev' = Quiet("setCallbacks", "call", "none", 0, 0)
  /\ UNCHANGED <<mgr, userId, storage, profile, platform, capable, ops>>

\* cleanup() as it would be if it also forgot the current location.
CleanupClearsLocation ==
  /\ StopTracking
  /\ currentLocation' = None
  /\ onLocationUpdate' = NoCallback
  /\ onError' = NoCallback
  /\ ev' = Quiet("cleanup", "call", "none", 0, 0)
  /\ UNCHANGED <<isEnabled, userId, storage, profile, capable, ops>>

\* cleanup() as it would be if it left the callbacks bound.
CleanupKeepsCallbacks ==
  /\ StopTracking
  /\ ev' = Quiet("cleanup", "call", "none", 0, 0)
  /\ UNCHANGED <<isEnabled, currentLocation, userId, callbacks, storage, profile,
                 capable, ops>>

Cleanup ==
  /\ StopTracking
  /\ onLocationUpdate' = NoCallback
  /\ onError' = NoCallback
  /\ ev' = Quiet("cleanup", "call", "none", 0, 0)
  /\ UNCHANGED <<isEnabled, currentLocation, userId, storage, profile, capable, ops>>

\* handleLogout: send the update that nulls the coordinates of the signed-in
\* user's profile.  Its result is only logged.
LogoutCall ==
  /\ userId # NoUser
  /\ Room
  /\ Suspend([Idle EXCEPT !.kind = "logout", !.pc = "updateSent",
                          !.write = LogoutCoords, !.nwrite = 1])
  /\ ev' = Silent
  /\ UNCHANGED <<mgr, userId, callbacks, storage, profile, platform, capable>>

\* The reply to handleLogout's update arrives, applied or failed.
LogoutReplied(op) ==
  /\ op.kind = "logout" /\ Replied(op)
  /\ Finish(op)
  /\ ev' = Silent
  /\ UNCHANGED <<mgr, userId, callbacks, storage, profile, platform, capable>>

\* A SIGNED_OUT event runs handleSignOut: clearPersistedState().
ClearPersistedState ==
  /\ storage' = "absent"
  /\ ev' = Quiet("clearPersistedState", "call", "none", 0, 0)
  /\ UNCHANGED <<mgr, userId, callbacks, profile, platform, capable, ops>>

----------------------------------------------------------------------------
(* hasLocationChanged as a function of its arguments *)

\* Latitudes and longitudes a UserLocation may carry: values with three
\* decimals on both sides of a hundredth and half way between two, values
\* with two decimals, and western longitudes.
Latitudes == {12970, 12972, 12974, 12975, 12976, 12980}
Longitudes == {77594, 77596, -122419, -122424}

UserLocations == {Loc(lat, lon) : lat \in Latitudes, lon \in Longitudes}

\* No call made yet.
NotCompared ==
  /\ oldLocation = None
  /\ newLocation = None
  /\ changed = FALSE

\* A call hasLocationChanged(old, new).
CallHasLocationChanged(old, new) ==
  /\ oldLocation' = Some(old)
  /\ newLocation' = Some(new)
  /\ changed' = hasLocationChanged(old, new)
  /\ UNCHANGED <<mgr, userId, callbacks, storage, profile, platform, capable, ops, ev>>
  /\ UNCHANGED <<resolver, deviceBucket>>

----------------------------------------------------------------------------
(* The resolver get_users_in_location_bucket *)

\* The ids of the profile rows, and a null current_user_id.
UserIds == {"u1", "u2", "u3"}
NullId == "NULL"

\* Names in ascending order.
Names == <<"ann", "bob">>

\* Coordinates a row may hold: the two latitudes round to different
\* 2-decimal values, and so do the two longitudes.
RowLatitudes == {12972, 12976}
RowLongitudes == {77594, 77596}

\* Coordinates a query may pass: 12.974 rounds as 12.972 does, and 12.975,
\* half way between two hundredths, as 12.976 does.
QueryLatitudes == RowLatitudes \cup {12974, 12975}
QueryLongitudes == RowLongitudes

NullRow == [latitude |-> None, longitude |-> None, name |-> None]

\* The rows a profile may hold: each of latitude, longitude, name may be null.
ProfileRows ==
  [latitude  : {None} \cup {Some(x) : x \in RowLatitudes},
   longitude : {None} \cup {Some(x) : x \in RowLongitudes},
   name      : {None} \cup {Some(Names[i]) : i \in DOMAIN Names}]

\* ROUND(x::numeric, 2): to the nearest hundredth, halves away from zero.
Round2(x) == LET r == ((Abs(x) + 5) \div 10) * 10 IN IF x < 0 THEN -r ELSE r

\* A WHERE clause that tests closeness (within 0.005 degrees) instead of
\* equal rounded coordinates.
InBucketWithinDistance(id, p, current_user_id, user_lat, user_lng) ==
  /\ p.latitude # None
  /\ p.longitude # None
  /\ p.name # None
  /\ Abs(The(p.latitude) - user_lat) <= 5
  /\ Abs(The(p.longitude) - user_lng) <= 5
  /\ current_user_id = NullId \/ id # current_user_id

\* The WHERE clause without the test on current_user_id.
InBucketIncludesCaller(id, p, current_user_id, user_lat, user_lng) ==
  /\ p.latitude # None
  /\ p.longitude # None
  /\ p.name # None
  /\ Round2(The(p.latitude)) = Round2(user_lat)
  /\ Round2(The(p.longitude)) = Round2(user_lng)

\* The WHERE clause for row p with id `id`.  A comparison with a null
\* operand is not true, so a row with a null coordinate never passes.
InBucket(id, p, current_user_id, user_lat, user_lng) ==
  /\ p.latitude # None
  /\ p.longitude # None
  /\ p.name # None
  /\ Round2(The(p.latitude)) = Round2(user_lat)
  /\ Round2(The(p.longitude)) = Round2(user_lng)
  /\ current_user_id = NullId \/ id # current_user_id

\* The position of a name in the ascending order.
NameRank(n) == CHOOSE i \in DOMAIN Names : Names[i] = n

\* A returned row: the selected columns, with distance_km = 0.
ResultRow(id, p) ==
  [id |-> id, name |-> p.name, latitude |-> p.latitude, longitude |-> p.longitude,
   distance_km |-> 0]

\* RETURN QUERY with LIMIT 1: at most the first row in name order.
QueryResultsFirstOnly(table, current_user_id, user_lat, user_lng) ==
  LET hits == {id \in DOMAIN table :
                 InBucket(id, table[id], current_user_id, user_lat, user_lng)}
      least == {id \in hits : \A other \in hits :
                  NameRank(The(table[id].name)) <= NameRank(The(table[other].name))}
  IN IF hits = {} THEN {<< >>}
     ELSE {<<ResultRow(id, table[id])>> : id \in least}

\* The ids of the rows that pass the WHERE clause.
Hits(table, current_user_id, user_lat, user_lng) ==
  {id \in DOMAIN table : InBucket(id, table[id], current_user_id, user_lat, user_lng)}

\* What RETURN QUERY may return: the rows that pass the WHERE clause, each
\* once, ORDER BY name (rows of equal name in any order).
QueryResults(table, current_user_id, user_lat, user_lng) ==
  LET hits == Hits(table, current_user_id, user_lat, user_lng)
      n == Cardinality(hits)
  IN {[i \in 1..n |-> ResultRow(order[i], table[order[i]])] :
        order \in {o \in [1..n -> hits] :
                     /\ \A i, j \in 1..n : i # j => o[i] # o[j]
                     /\ \A i, j \in 1..n :
                          i < j => NameRank(The(table[o[i]].name))
                                     <= NameRank(The(table[o[j]].name))}}

\* A client calls the resolver.
Query(current_user_id, user_lat, user_lng) ==
  /\ rpc' = Some([current_user_id |-> current_user_id,
                  user_lat |-> user_lat, user_lng |-> user_lng])
  /\ returned' \in QueryResults(profiles, current_user_id, user_lat, user_lng)
  /\ UNCHANGED profiles
  /\ UNCHANGED <<mgr, userId, callbacks, storage, profile, platform, capable, ops, ev>>
  /\ UNCHANGED <<comparison, deviceBucket>>

\* getNearbyUsers: the client rounds its location to 2 decimals and calls
\* the resolver with its own id.
GetNearbyUsers(currentUserId, location) ==
  Query(currentUserId, ToFixed2(location.latitude), ToFixed2(location.longitude))

----------------------------------------------------------------------------
(* The manager after construction, and the steps *)

\* loadPersistedState as it would be if it never read the stored flag.
LoadPersistedStateDefaultsOff(saved) == FALSE

\* loadPersistedState: the toggle starts enabled iff the stored flag is "true".
LoadPersistedState(saved) == saved = "true"

Init ==
  /\ storage \in {"absent", "true", "false"}
  /\ isEnabled = LoadPersistedState(storage)
  /\ isTracking = FALSE
  /\ watchId = None
  /\ intervalId = None
  /\ currentLocation = None
  /\ userId = NoUser
  /\ onLocationUpdate = NoCallback
  /\ onError = NoCallback
  /\ profile \in {NullCoords, SavedCoords(Loc(12970, 77590))}
  /\ watches = {}
  /\ timers = {}
  /\ capable \in BOOLEAN
  /\ ops = EmptyBag
  /\ ev = Silent
  /\ profiles = [id \in UserIds |-> NullRow]
  /\ rpc = None
  /\ returned = << >>
  /\ NotCompared
  /\ deviceBucket = None

Next ==
  \/ \E cbs \in CallbackPairs : Initialize(cbs) /\ UNCHANGED <<resolver, comparison, deviceBucket>>
  \/ \E cbs \in NewCallbackPairs : SetCallbacks(cbs) /\ UNCHANGED <<resolver, comparison, deviceBucket>>
  \/ TurnOnCall /\ UNCHANGED <<resolver, comparison, deviceBucket>>
  \/ TurnOffCall /\ UNCHANGED <<resolver, comparison, deviceBucket>>
  \/ RefreshCall /\ UNCHANGED <<resolver, comparison, deviceBucket>>
  \/ Cleanup /\ UNCHANGED <<resolver, comparison, deviceBucket>>
  \/ LogoutCall /\ UNCHANGED <<resolver, comparison, deviceBucket>>
  \/ ClearPersistedState /\ UNCHANGED <<resolver, comparison, deviceBucket>>
  \/ TimerTick /\ UNCHANGED <<resolver, comparison, deviceBucket>>
  \/ WatchError /\ UNCHANGED <<resolver, comparison, deviceBucket>>
  \/ \E raw \in RawPositions : WatchSample(raw) /\ UNCHANGED <<resolver, comparison, deviceBucket>>
  \/ \E op \in InFlight : ProfileUpdate(op) /\ UNCHANGED <<resolver, comparison, deviceBucket>>
  \/ \E op \in InFlight : RestoreSaved(op) /\ UNCHANGED <<resolver, comparison, deviceBucket>>
  \/ \E op \in InFlight : TurnOnSaved(op) /\ UNCHANGED <<resolver, comparison, deviceBucket>>
  \/ \E op \in InFlight : TurnOffCleared(op) /\ UNCHANGED <<resolver, comparison, deviceBucket>>
  \/ \E op \in InFlight : HandleSaved(op) /\ UNCHANGED <<resolver, comparison, deviceBucket>>
  \/ \E op \in InFlight : RefreshSaved(op) /\ UNCHANGED <<resolver, comparison, deviceBucket>>
  \/ \E op \in InFlight : LogoutReplied(op) /\ UNCHANGED <<resolver, comparison, deviceBucket>>
  \/ \E op \in InFlight : \E got \in PositionOutcomes :
       RestorePosition(op, got) /\ UNCHANGED <<resolver, comparison, deviceBucket>>
  \/ \E op \in InFlight : \E got \in PositionOutcomes :
       TurnOnPosition(op, got) /\ UNCHANGED <<resolver, comparison, deviceBucket>>
  \/ \E op \in InFlight : \E got \in PositionOutcomes :
       PeriodicPosition(op, got) /\ UNCHANGED <<resolver, comparison, deviceBucket>>
  \/ \E op \in InFlight : \E got \in PositionOutcomes :
       RefreshPosition(op, got) /\ UNCHANGED <<resolver, comparison, deviceBucket>>

Spec == Init /\ [][Next]_vars

\* The manager as constructed with nothing persisted, on a capable platform.
Constructed ==
  /\ storage = "absent"
  /\ isEnabled = LoadPersistedState(storage)
  /\ isTracking = FALSE
  /\ watchId = None
  /\ intervalId = None
  /\ currentLocation = None
  /\ userId = NoUser
  /\ onLocationUpdate = NoCallback
  /\ onError = NoCallback
  /\ profile = NullCoords
  /\ watches = {}
  /\ timers = {}
  /\ capable = TRUE
  /\ ops = EmptyBag
  /\ ev = Silent
  /\ deviceBucket = None

\* Any profile table, and no query made yet.
ResolverInit ==
  /\ profiles \in [UserIds -> ProfileRows]
  /\ rpc = None
  /\ returned = << >>
  /\ NotCompared
  /\ Constructed

\* One call per behaviour: the resolver only reads the table, so a second
\* call sees what a first call from the same table sees.
ResolverNext ==
  \/ /\ rpc = None
     /\ \E current_user_id \in UserIds \cup {NullId} :
          \E user_lat \in QueryLatitudes : \E user_lng \in QueryLongitudes :
            Query(current_user_id, user_lat, user_lng)
  \/ /\ rpc = None
     /\ \E currentUserId \in UserIds : \E raw \in RawPositions :
          GetNearbyUsers(currentUserId, Captured(raw))

ResolverSpec == ResolverInit /\ [][ResolverNext]_vars

\* hasLocationChanged applied to any two locations, again and again.
ComparisonInit ==
  /\ NotCompared
  /\ profiles = [id \in UserIds |-> NullRow]
  /\ rpc = None
  /\ returned = << >>
  /\ Constructed

ComparisonNext ==
  \E old \in UserLocations : \E new \in UserLocations : CallHasLocationChanged(old, new)

ComparisonSpec == ComparisonInit /\ [][ComparisonNext]_vars

----------------------------------------------------------------------------
(* getState and a caller that writes into what it returns *)

\* getState(): { ...this.state }, a new object with the fields of state.  The
\* copy is shallow: its currentLocation is the very object the manager holds.
GetState ==
  [isEnabled |-> isEnabled, isTracking |-> isTracking, watchId |-> watchId,
   intervalId |-> intervalId, currentLocation |-> currentLocation]

\* A caller assigns to a field of the object getState() returned: the field
\* belongs to the copy, the manager's state is not reached.
CallerWritesField ==
  /\ ev' = Quiet("getState", "field", "none", 0, 0)
  /\ UNCHANGED <<mgr, userId, callbacks, storage, profile, platform, capable, ops>>
  /\ UNCHANGED <<resolver, comparison, deviceBucket>>

\* A caller assigns the coordinates of l to getState().currentLocation: that
\* object is state.currentLocation itself.
CallerWritesLocation(l) ==
  /\ GetState.currentLocation # None
  /\ l # The(GetState.currentLocation)
  /\ currentLocation' = Some(l)
  /\ ev' = Quiet("getState", "location", "none", 0, 0)
  /\ UNCHANGED <<isEnabled, isTracking, watchId, intervalId, userId, callbacks,
                 storage, profile, platform, capable, ops>>
  /\ UNCHANGED <<resolver, comparison, deviceBucket>>

NextWithCaller ==
  \/ Next
  \/ CallerWritesField
  \/ \E raw \in RawPositions : CallerWritesLocation(Captured(raw))

\* The manager with a caller that mutates the objects getState() hands out.
SpecWithCaller == Init /\ [][NextWithCaller]_vars

----------------------------------------------------------------------------
(* The radar screen of a demo user: syncDemoLocations *)

\* The accounts whose username is like 'demo%': the signed-in user and one more.
DemoAccounts == {User, "u2"}

\* The location the screen makes up for a demo user without coordinates:
\* latitude || 99, longitude || 99.
DefaultDemoLocation == Loc(99000, 99000)

\* syncDemoLocations(location): one update of `profiles` that sets the
\* coordinates, as given, on every demo account but the signed-in user's.
SyncDemoLocations(location) ==
  /\ userId # NoUser
  /\ profiles' = [id \in UserIds |->
                    IF id \in DemoAccounts \ {userId}
                    THEN [profiles[id] EXCEPT !.latitude = Some(location.latitude),
                                              !.longitude = Some(location.longitude)]
                    ELSE profiles[id]]
  /\ ev' = Quiet("syncDemoLocations", "call", "none", 0, 0)
  /\ UNCHANGED <<mgr, userId, callbacks, storage, profile, platform, capable, ops>>
  /\ UNCHANGED <<rpc, returned, comparison, deviceBucket>>

\* The screen's handleLocationUpdate, run by the manager as onLocationUpdate
\* with a location, syncs the demo accounts to it.
DemoLocationUpdate ==
  /\ ev.notified /\ ev.arg # None
  /\ SyncDemoLocations(The(ev.arg))

\* Pull to refresh: the demo accounts are synced to the user's coordinates
\* as the screen holds them, or to the default.
DemoRefresh ==
  SyncDemoLocations(IF profile.latitude # None /\ profile.longitude # None
                    THEN Loc(The(profile.latitude), The(profile.longitude))
                    ELSE DefaultDemoLocation)

NextWithDemo ==
  \/ Next
  \/ DemoLocationUpdate
  \/ DemoRefresh

\* The manager in the session of a demo user.
SpecWithDemo == Init /\ [][NextWithDemo]_vars

----------------------------------------------------------------------------
(* Vocabulary of the properties *)

\* The steps of an operation of the given kind: it is issued, resumes, or ends.
Copies(op, bag) == IF BagIn(op, bag) THEN bag[op] ELSE 0

\* The suspended operation of the given kind that this step ends.
Ended(op, kind) == op.kind = kind /\ ops' = ops (-) SetToBag({op})

\* This step suspends or resumes an operation of the given kind.
Advances(kind) ==
  \E op \in BagToSet(ops') : op.kind = kind /\ Copies(op, ops') > Copies(op, ops)

\* This step suspends a new operation in the given state.
Issues(op) == ops' = ops (+) SetToBag({op})

Returned(op, step, result) == ev.op = op /\ ev.step = step /\ ev.result = result

Returns(op, step, result) == ev'.op = op /\ ev'.step = step /\ ev'.result = result

\* x is the multiple of 0.01 degree nearest to the raw coordinate.
Rounds(x, rawCoord) == x % 10 = 0 /\ Abs(x - rawCoord) <= 5

\* Tracking is live: the flag is set and the handles held are live on the
\* platform (a watch exists wherever the platform can provide one).
TrackingLive ==
  /\ isTracking
  /\ intervalId # None /\ intervalId \subseteq timers
  /\ capable => (watchId # None /\ watchId \subseteq watches)

----------------------------------------------------------------------------
(* C1 *)

\* C1: a turnOn() that fails at any step (capability check, position
\* acquisition, profile write) returns {success:false} and none of its steps
\* changes the manager: isEnabled, isTracking, the watch and timer handles,
\* currentLocation, the live watches and timers, the persisted flag; and
\* onLocationUpdate is not called.
C1_TurnOnFailureLeavesState ==
  [][ /\ ((ev'.op = "turnOn" /\ ev'.result = "fail") \/ Advances("turnOn"))
         => (UNCHANGED <<mgr, storage, platform>> /\ ~ev'.notified)
      /\ (Returns("turnOn", "call", "fail") \/ Returns("turnOn", "call", "ok")
           \/ Issues(AwaitPosition("turnOn")))
         => ((~isEnabled /\ ~capable) => ev'.result = "fail")
      /\ \A op \in InFlight :
           (Ended(op, "turnOn") /\ (op.pc = "awaitPos" \/ ~UpdateOk(op)))
             => (ev'.op = "turnOn" /\ ev'.result = "fail")
    ]_vars

\* A turnOn() from the disabled state has just failed on its profile write.
C1_Witness ==
  /\ Returned("turnOn", "saved", "fail")
  /\ ~isEnabled /\ ~isTracking /\ watchId = None /\ intervalId = None
  /\ storage # "true"

----------------------------------------------------------------------------
(* C2 *)

\* C2 as claimed: turnOn() called while isEnabled is true returns
\* {success:true}, issues no position request and no profile write, and
\* leaves tracking live.
C2_AsClaimed ==
  [][ (ev'.op = "turnOn" /\ ev'.step = "call" /\ isEnabled)
         => (ev'.result = "ok" /\ ev'.nreq = 0 /\ ev'.nwrite = 0 /\ TrackingLive')
    ]_vars

\* C2: with a user bound, turnOn() called while isEnabled is true returns
\* {success:true} in the call itself, issues no position request and no
\* profile write, changes neither isEnabled, currentLocation nor the persisted
\* flag, and leaves tracking live (started by the call if it had stopped);
\* with no user bound it returns {success:false} and changes nothing.
C2_TurnOnIdempotent ==
  [][ /\ (ev'.op = "turnOn" /\ ev'.step = "call" /\ isEnabled /\ userId # NoUser)
         => /\ ev'.result = "ok" /\ ev'.nreq = 0 /\ ev'.nwrite = 0
            /\ TrackingLive'
            /\ ~isTracking => (timers' # timers /\ (capable => watches' # watches))
            /\ ~ev'.notified
            /\ UNCHANGED <<isEnabled, currentLocation, storage, profile, ops>>
      /\ (isEnabled /\ userId # NoUser) => ~Issues(AwaitPosition("turnOn"))
      /\ (ev'.op = "turnOn" /\ ev'.step = "call" /\ userId = NoUser)
         => (ev'.result = "fail" /\ UNCHANGED <<mgr, storage, profile, platform, ops>>)
    ]_vars

\* turnOn() has just returned success from its already-enabled path, and
\* tracking, which restoration had not started, is live.
C2_Witness ==
  /\ Returned("turnOn", "call", "ok")
  /\ isEnabled /\ TrackingLive /\ currentLocation = None

----------------------------------------------------------------------------
(* C3 *)

----------------------------------------------------------------------------
(* C4 *)

\* C4 as claimed: turnOff() called while isEnabled is false returns
\* {success:true} and has no side effect.
C4_AsClaimed ==
  [][ (ev'.op = "turnOff" /\ ev'.step = "call" /\ ~isEnabled)
         => (ev'.result = "ok" /\ ~ev'.notified
             /\ UNCHANGED <<mgr, storage, profile, platform, callbacks, userId, ops>>)
    ]_vars

\* C4: with a user bound, turnOff() called while isEnabled is false returns
\* {success:true} and has no side effect: no profile update is sent, no
\* callback runs, the manager's state, the live watch and timer and the
\* persisted flag are unchanged; with no user bound it returns {success:false},
\* equally without side effects.
C4_TurnOffWhenOff ==
  [][ /\ (ev'.op = "turnOff" /\ ev'.step = "call" /\ ~isEnabled)
         => /\ ev'.result = (IF userId = NoUser THEN "fail" ELSE "ok")
            /\ ev'.nwrite = 0 /\ ~ev'.notified /\ ev'.error = NoCallback
            /\ UNCHANGED <<mgr, storage, profile, platform, callbacks, userId, ops>>
      /\ ~isEnabled => ~Issues(AwaitClear)
    ]_vars

\* turnOff() has just returned success on a manager that is initialized and off.
C4_Witness ==
  /\ Returned("turnOff", "call", "ok")
  /\ userId = User /\ ~isEnabled /\ onLocationUpdate # NoCallback

----------------------------------------------------------------------------
(* C5 *)

\* C5: when turnOff() returns {success:true} from the enabled state, the
\* profile's latitude and longitude are both null, isEnabled is false,
\* currentLocation is null, isTracking is false with watchId and intervalId
\* both null, the persisted intent is false, and a bound onLocationUpdate has
\* been called once, with null.
C5_AsClaimed ==
  Returned("turnOff", "saved", "ok")
    => /\ profile = NullCoords
       /\ ~isEnabled /\ currentLocation = None
       /\ ~isTracking /\ watchId = None /\ intervalId = None
       /\ storage = "false"
       /\ onLocationUpdate # NoCallback => (ev.notified /\ ev.arg = None)

----------------------------------------------------------------------------
(* C6 *)

\* C6: in every reachable state the profile's latitude and longitude are
\* either both null or both non-null.
C6_CoordinatesPaired == (profile.latitude = None) <=> (profile.longitude = None)

\* A write of the manager has stored a pair that the row did not start with.
C6_Witness ==
  /\ profile = SavedCoords(Loc(12970, 77600))
  /\ isEnabled /\ currentLocation = Some(Loc(12970, 77600))

----------------------------------------------------------------------------
(* C7 *)

\* C7: the call of turnOff() that sends the null write stops tracking first
\* (isTracking false, handles null, the watch and the timer it held
\* cancelled); when that write fails, turnOff() returns {success:false} and
\* the returning step restarts nothing and changes nothing: isTracking, the
\* handles, the live watches and timers, isEnabled, currentLocation and the
\* persisted intent are as they were, and onLocationUpdate is not called.
C7_TurnOffWriteFailure ==
  [][ /\ Issues(AwaitClear)
         => /\ ~isTracking' /\ watchId' = None /\ intervalId' = None
            /\ watches' = watches \ watchId /\ timers' = timers \ intervalId
            /\ UNCHANGED <<isEnabled, currentLocation, storage, profile>>
      /\ \A op \in InFlight :
           (Ended(op, "turnOff") /\ ~UpdateOk(op))
             => /\ Returns("turnOff", "saved", "fail")
                /\ ~ev'.notified
                /\ isEnabled' = isEnabled
                /\ UNCHANGED <<mgr, storage, platform, profile, callbacks>>
      /\ Returns("turnOff", "saved", "fail")
           => \E op \in InFlight : Ended(op, "turnOff") /\ ~UpdateOk(op)
    ]_vars

\* turnOff() has returned failure with the toggle still enabled, a location
\* still held, the intent still persisted and nothing tracking.
C7_Witness ==
  /\ Returned("turnOff", "saved", "fail")
  /\ isEnabled /\ currentLocation # None /\ storage = "true"
  /\ ~isTracking /\ watchId = None /\ intervalId = None
  /\ watches = {} /\ timers = {}

----------------------------------------------------------------------------
(* C8 *)

\* C8: in every reachable state isTracking is false whenever isEnabled is
\* false.
C8_AsClaimed == ~isEnabled => ~isTracking

----------------------------------------------------------------------------
(* C9 *)

\* The 0.01-degree cell of a location.
BucketOf(l) == <<(l.latitude + 5) \div 10, (l.longitude + 5) \div 10>>

\* This step sends the profile write of a handleLocationUpdate call for l.
HandleWrites(l) ==
  \E op \in BagToSet(ops') :
    /\ op.kind = "handle" /\ op.pc = "updateSent" /\ op.loc = Some(l)
    /\ Copies(op, ops') = Copies(op, ops) + 1
    /\ op.nwrite = 1 /\ op.write = [latitude |-> Some(l.latitude),
                                    longitude |-> Some(l.longitude)]

\* C9: a sample handed to handleLocationUpdate while enabled is suppressed
\* exactly when it lies in the bucket of currentLocation: a suppressed
\* sample sends no write, notifies nobody and leaves the manager and the
\* profile as they are; a sample sends a write only when there is no
\* currentLocation or its bucket differs, and then exactly one; when that
\* write succeeds currentLocation becomes the sample and a bound
\* onLocationUpdate is called once with it, so the next sample of the same
\* bucket is suppressed.
C9_ChangeDetection ==
  [][ /\ ev'.result = "suppressed"
         => /\ isEnabled /\ currentLocation # None /\ ev'.sample # None
            /\ BucketOf(The(ev'.sample)) = BucketOf(The(currentLocation))
            /\ ev'.nwrite = 0 /\ ~ev'.notified
            /\ ~Advances("handle")
            /\ UNCHANGED <<mgr, profile, storage, platform>>
      /\ ev'.result = "dropped" => (~isEnabled \/ userId = NoUser)
      /\ \A raw \in RawPositions :
           HandleWrites(Captured(raw))
             => /\ isEnabled
                /\ \/ currentLocation = None
                   \/ BucketOf(Captured(raw)) # BucketOf(The(currentLocation))
                /\ BagCardinality(ops') <= BagCardinality(ops) + 1
                /\ UNCHANGED <<mgr, profile>>
      /\ \A op \in InFlight :
           Ended(op, "handle")
             => IF UpdateOk(op)
                THEN /\ Returns("handle", "saved", "ok")
                     /\ ev'.nwrite = 1
                     /\ currentLocation' = op.loc
                     /\ onLocationUpdate # NoCallback
                          => (ev'.notified /\ ev'.arg = op.loc)
                ELSE /\ Returns("handle", "saved", "fail")
                     /\ ~ev'.notified /\ UNCHANGED currentLocation
    ]_vars

\* After a write moved currentLocation to a bucket the profile did not start
\* in, a further sample of that bucket has been suppressed.
C9_Witness ==
  /\ ev.result = "suppressed" /\ ev.op = "handle"
  /\ currentLocation = Some(Loc(12970, 77600))
  /\ ev.sample = currentLocation
  /\ profile = SavedCoords(Loc(12970, 77600))

----------------------------------------------------------------------------
(* C10 *)

\* C10: every call of onLocationUpdate with a non-null location L is made by
\* the step that ends an operation whose profile write of L's rounded
\* coordinates has completed successfully.
C10_AsClaimed ==
  [][ (ev'.notified /\ ev'.arg # None)
        => \E op \in InFlight :
             /\ ops' = ops (-) SetToBag({op})
             /\ UpdateOk(op)
             /\ op.loc = ev'.arg
             /\ op.write = SavedCoords(The(ev'.arg))
    ]_vars

----------------------------------------------------------------------------
(* C11 *)

\* This step takes suspended operation op off and puts next in its place.
Resumes(op, next) ==
  /\ op # next
  /\ ops' = (ops (-) SetToBag({op})) (+) SetToBag({next})

\* C11: initialize() on a manager whose persisted intent is enabled starts a
\* restoration by itself, with one position request and no turnOn(); when
\* the position arrives the restoration sends one profile update whose patch
\* is that position rounded to 2 decimals; when that update has succeeded
\* the restoration leaves tracking live and calls the bound onLocationUpdate
\* once, with the restored location, which is currentLocation.
C11_RestorationOnInitialize ==
  [][ /\ storage = "true" => isEnabled
      /\ ev'.op = "initialize"
           => /\ isEnabled <=> Issues(AwaitPosition("restore"))
              /\ ev'.nreq = (IF isEnabled THEN 1 ELSE 0)
              /\ ~Advances("turnOn")
      /\ \A op \in InFlight :
           (op.kind = "restore" /\ op.pc = "awaitPos" /\ Copies(op, ops') < Copies(op, ops))
             => \/ /\ Ended(op, "restore") /\ Returns("restore", "position", "none")
                   /\ ~ev'.notified
                \/ \E next \in BagToSet(ops') :
                     /\ Resumes(op, next)
                     /\ next.kind = "restore" /\ next.pc = "updateSent"
                     /\ next.nreq = 1 /\ next.nwrite = 1
                     /\ next.raw # None /\ next.loc # None
                     /\ Rounds(The(next.loc).latitude, The(next.raw)[1])
                     /\ Rounds(The(next.loc).longitude, The(next.raw)[2])
                     /\ next.write = [latitude |-> Some(The(next.loc).latitude),
                                      longitude |-> Some(The(next.loc).longitude)]
      /\ \A op \in InFlight :
           (Ended(op, "restore") /\ UpdateOk(op))
             => /\ Returns("restore", "saved", "none")
                /\ ev'.nreq = 1 /\ ev'.nwrite = 1
                /\ TrackingLive'
                /\ isEnabled' = isEnabled /\ storage' = storage
                /\ onLocationUpdate # NoCallback
                     => (ev'.notified /\ ev'.arg = op.loc /\ ev'.to = onLocationUpdate)
    ]_vars

\* A restoration started by initialize() has completed: the profile holds
\* the rounded position, tracking is live and the callback got the location.
C11_Witness ==
  /\ Returned("restore", "saved", "none")
  /\ ev.notified /\ ev.arg = currentLocation
  /\ currentLocation = Some(Loc(12970, 77600))
  /\ profile = SavedCoords(Loc(12970, 77600))
  /\ isEnabled /\ storage = "true" /\ TrackingLive

----------------------------------------------------------------------------
(* C12 *)

\* C12: when the position request of a restoration fails (an error result
\* or an exception), the restoration ends by calling the bound onError and
\* nothing else: isEnabled, the persisted intent, isTracking, the handles,
\* the live watches and timers, currentLocation and the profile are as they
\* were, no profile update is sent and onLocationUpdate is not called.
C12_RestorationFailure ==
  [][ /\ \A op \in InFlight :
           (Ended(op, "restore") /\ op.pc = "awaitPos")
             => /\ Returns("restore", "position", "none")
                /\ ev'.error = onError
                /\ ~ev'.notified /\ ev'.nwrite = 0
                /\ isEnabled' = isEnabled /\ storage' = storage
                /\ UNCHANGED <<mgr, platform, profile, callbacks>>
      /\ Returns("restore", "position", "none")
           => \E op \in InFlight : Ended(op, "restore") /\ op.pc = "awaitPos"
    ]_vars

\* A restoration has failed: onError ran, the toggle and the persisted
\* intent are still enabled and nothing is tracking.
C12_Witness ==
  /\ Returned("restore", "position", "none")
  /\ ev.error = "cb" /\ onError = "cb"
  /\ isEnabled /\ storage = "true"
  /\ ~isTracking /\ watchId = None /\ intervalId = None
  /\ watches = {} /\ timers = {} /\ currentLocation = None

----------------------------------------------------------------------------
(* C13 *)

\* C13: refreshLocation() called while isEnabled is false or with no bound
\* user returns {success:false} at once: it requests no position, sends no
\* profile update, calls neither callback and changes nothing; only a call
\* made while enabled with a user bound requests a position.
C13_RefreshWhileDisabled ==
  [][ /\ (ev'.op = "refresh" /\ ev'.step = "call")
           => /\ ~isEnabled \/ userId = NoUser
              /\ ev'.result = "fail"
              /\ ev'.nreq = 0 /\ ev'.nwrite = 0
              /\ ~ev'.notified /\ ev'.error = NoCallback
              /\ UNCHANGED <<mgr, storage, profile, platform, callbacks, userId, ops>>
      /\ (~isEnabled \/ userId = NoUser) => ~Issues(AwaitPosition("refresh"))
    ]_vars

\* refreshLocation() has just failed on a disabled manager that has a user
\* and callbacks bound.
C13_Witness ==
  /\ Returned("refresh", "call", "fail")
  /\ ~isEnabled /\ userId = User
  /\ onLocationUpdate # NoCallback /\ onError # NoCallback
  /\ ops = EmptyBag

----------------------------------------------------------------------------
(* C14 *)

\* C14: refreshLocation() while enabled sends a profile update only for a
\* changed position: when the acquired sample lies in the bucket of
\* currentLocation, no update is sent.
C14_AsClaimed ==
  [][ \A op \in InFlight : \A next \in BagToSet(ops') :
        (op.kind = "refresh" /\ Resumes(op, next) /\ next.pc = "updateSent")
          => \/ currentLocation = None
             \/ BucketOf(The(next.loc)) # BucketOf(The(currentLocation))
    ]_vars

----------------------------------------------------------------------------
(* C15 *)

\* C15: getState() returns a snapshot: whatever a caller writes into the
\* returned object, the currentLocation object reachable from it included,
\* the manager's isEnabled, isTracking, handles and currentLocation stay as
\* they were.
C15_AsClaimed == [][ ev'.op = "getState" => UNCHANGED mgr ]_vars

----------------------------------------------------------------------------
(* C16 *)

\* C16: setCallbacks() replaces the two callbacks and nothing else:
\* isEnabled, isTracking, the handles, currentLocation, the bound user, the
\* persisted intent, the live watches and timers and the suspended
\* operations are as they were; and every step that notifies calls the
\* onLocationUpdate bound at that moment, every step that reports an error
\* the onError bound at that moment, so updates after a setCallbacks() go to
\* the new callbacks.
C16_SetCallbacksFrame ==
  [][ /\ ev'.op = "setCallbacks"
           => UNCHANGED <<mgr, userId, storage, platform, profile, ops>>
      /\ ev'.notified => (ev'.to = onLocationUpdate /\ ev'.to # NoCallback)
      /\ ev'.error # NoCallback => ev'.error = onError
    ]_vars

\* setCallbacks() has just bound the handlers of a recreated component on a
\* manager that is tracking, and tracking is still live.
C16_Witness ==
  /\ Returned("setCallbacks", "call", "none")
  /\ onLocationUpdate = "cb2" /\ onError = "cb2"
  /\ isEnabled /\ storage = "true" /\ currentLocation # None
  /\ TrackingLive /\ watches # {}

----------------------------------------------------------------------------
(* C17 *)

\* C17: cleanup() stops tracking (isTracking false, both handles null, no
\* watch and no timer left live) and detaches both callbacks; isEnabled,
\* currentLocation, the persisted intent, the bound user, the profile and
\* the suspended operations are as they were; an initialize() that follows
\* finds isEnabled as it was and, when it is true, starts a restoration.
C17_CleanupFrame ==
  [][ /\ ev'.op = "cleanup"
           => /\ ~isTracking' /\ watchId' = None /\ intervalId' = None
              /\ watches' = {} /\ timers' = {}
              /\ onLocationUpdate' = NoCallback /\ onError' = NoCallback
              /\ isEnabled' = isEnabled
              /\ UNCHANGED <<currentLocation, storage, userId, profile, ops>>
      /\ (ev.op = "cleanup" /\ ev'.op = "initialize" /\ isEnabled)
           => Issues(AwaitPosition("restore"))
    ]_vars

\* cleanup() has just run on an enabled manager: nothing tracks, no callback
\* is bound, the location and the intent are kept.
C17_Witness ==
  /\ Returned("cleanup", "call", "none")
  /\ isEnabled /\ storage = "true" /\ currentLocation # None
  /\ ~isTracking /\ watchId = None /\ intervalId = None
  /\ watches = {} /\ timers = {}
  /\ onLocationUpdate = NoCallback /\ onError = NoCallback
  /\ profile = SavedCoords(The(currentLocation))

----------------------------------------------------------------------------
(* C18 *)

\* C18: clearPersistedState() clears the manager's toggle altogether: after
\* it the persisted flag is absent and isEnabled is false, and an
\* initialize() made while the flag is absent starts no restoration.
C18_AsClaimed ==
  [][ /\ ev'.op = "clearPersistedState" => (storage' = "absent" /\ ~isEnabled')
      /\ (storage = "absent" /\ ev'.op = "initialize")
           => ~Issues(AwaitPosition("restore"))
    ]_vars

----------------------------------------------------------------------------
(* C19 *)

\* The methods that return a {success, error?} result.
ResultMethods == {"turnOn", "turnOff", "refresh"}

\* C19: turnOn(), turnOff() and refreshLocation() end only by returning a
\* result, {success:true} or {success:false}, never by raising: whatever the
\* position request gives (a position, an error, an exception) and whether
\* the profile update succeeds or fails, the suspended operation has a next
\* step, and the step that ends it returns a result.  With no bound user
\* turnOn() and turnOff() return {success:false} at the call, request and
\* send nothing and change nothing.
C19_ResultNeverRaises ==
  [][ /\ ev'.op \in ResultMethods => ev'.result \in {"ok", "fail"}
      /\ \A op \in InFlight : \A kind \in ResultMethods :
           Ended(op, kind) => (ev'.op = kind /\ ev'.result \in {"ok", "fail"})
      /\ \A op \in InFlight :
           /\ (op.kind = "turnOn" /\ op.pc = "awaitPos")
                => \A got \in PositionOutcomes : ENABLED TurnOnPosition(op, got)
           /\ (op.kind = "refresh" /\ op.pc = "awaitPos")
                => \A got \in PositionOutcomes : ENABLED RefreshPosition(op, got)
           /\ (op.kind = "turnOn" /\ Replied(op)) => ENABLED TurnOnSaved(op)
           /\ (op.kind = "turnOff" /\ Replied(op)) => ENABLED TurnOffCleared(op)
           /\ (op.kind = "refresh" /\ Replied(op)) => ENABLED RefreshSaved(op)
      /\ (userId = NoUser /\ ev'.op \in {"turnOn", "turnOff"})
           => /\ ev'.step = "call" /\ ev'.result = "fail"
              /\ ev'.nreq = 0 /\ ev'.nwrite = 0 /\ ~ev'.notified
              /\ UNCHANGED <<mgr, storage, profile, platform, callbacks, userId, ops>>
      /\ userId = NoUser
           => (~Issues(AwaitPosition("turnOn")) /\ ~Issues(AwaitClear))
    ]_vars

\* turnOn() has returned {success:false} after its position request ended
\* in an exception.
C19_Witness ==
  /\ Returned("turnOn", "position", "fail")
  /\ ev.thrown
  /\ ~isEnabled /\ ~isTracking /\ currentLocation = None

----------------------------------------------------------------------------
(* C20 *)

\* C20: Resolver exclusion.  Whatever the profile table holds, the rows that
\* get_users_in_location_bucket returns for a non-null caller id never
\* include the caller's own row, and never a row whose latitude, longitude
\* or name is null (in the table or as returned).
C20_ResolverExclusion ==
  (rpc # None /\ The(rpc).current_user_id # NullId) =>
    \A i \in DOMAIN returned :
      /\ returned[i].id # The(rpc).current_user_id
      /\ returned[i].latitude # None
      /\ returned[i].longitude # None
      /\ returned[i].name # None
      /\ profiles[returned[i].id].latitude # None
      /\ profiles[returned[i].id].longitude # None
      /\ profiles[returned[i].id].name # None

\* A query by a caller whose own row lies in the queried bucket, next to a
\* row in that bucket without a name, has returned a row.
C20_Witness ==
  /\ rpc # None
  /\ The(rpc).current_user_id # NullId
  /\ returned # << >>
  /\ LET q == The(rpc)
         Near(p) == /\ p.latitude # None
                    /\ p.longitude # None
                    /\ Round2(The(p.latitude)) = Round2(q.user_lat)
                    /\ Round2(The(p.longitude)) = Round2(q.user_lng)
     IN /\ Near(profiles[q.current_user_id])
        /\ profiles[q.current_user_id].name # None
        /\ \E id \in UserIds : Near(profiles[id]) /\ profiles[id].name = None

----------------------------------------------------------------------------
(* C21 *)

\* The hundredth nearest to x, a half going away from zero: for x >= 0 the
\* k with 10k - 5 <= x < 10k + 5, as a value in thousandths; mirrored for
\* x < 0.
NearestHundredth(x) ==
  LET Up(y) ==
        10 * (CHOOSE k \in {y \div 10, y \div 10 + 1} : 10 * k - 5 <= y /\ y < 10 * k + 5)
  IN IF x >= 0 THEN Up(x) ELSE 0 - Up(0 - x)

\* Coordinates <<lat, lng>> and <<lat2, lng2>> have equal bucket keys.
SameBucket(lat, lng, lat2, lng2) ==
  /\ NearestHundredth(lat) = NearestHundredth(lat2)
  /\ NearestHundredth(lng) = NearestHundredth(lng2)

\* A row a query can return: latitude, longitude and name are not null.
Eligible(p) == p.latitude # None /\ p.longitude # None /\ p.name # None

\* The ids in the rows the latest call returned.
ReturnedIds == {returned[i].id : i \in DOMAIN returned}

\* What user a is shown when it asks from its stored coordinate.
Nearby(a) ==
  Hits(profiles, a, The(profiles[a].latitude), The(profiles[a].longitude))

\* The latest call returned each eligible row other than the caller's
\* exactly if its bucket key equals that of the coordinate passed.
BucketEquality ==
  rpc # None =>
    \A id \in UserIds :
      (id # The(rpc).current_user_id /\ Eligible(profiles[id])) =>
        (id \in ReturnedIds <=>
           SameBucket(The(profiles[id].latitude), The(profiles[id].longitude),
                      The(rpc).user_lat, The(rpc).user_lng))

\* The latest call was made by user a with a's stored coordinate.
AskedFromStored(a) ==
  /\ rpc # None
  /\ profiles[a].latitude # None /\ profiles[a].longitude # None
  /\ The(rpc) = [current_user_id |-> a,
                 user_lat |-> The(profiles[a].latitude),
                 user_lng |-> The(profiles[a].longitude)]

\* C21 as stated: matching is bucket equality, and when A has asked from
\* its stored coordinate, any other user B with a stored coordinate was
\* returned exactly if B asking from its coordinate is shown A.
C21_AsClaimed ==
  /\ BucketEquality
  /\ \A a, b \in UserIds :
       (/\ a # b
        /\ AskedFromStored(a)
        /\ profiles[b].latitude # None /\ profiles[b].longitude # None)
         => (b \in ReturnedIds <=> a \in Nearby(b))

\* C21, amended: an eligible row other than the caller's is returned by
\* get_users_in_location_bucket(caller, lat, lng) if and only if its
\* rounded latitude and longitude equal the rounded lat and lng; between two
\* users whose rows both carry coordinates and a name matching is symmetric
\* (A asking from its stored coordinate is returned B exactly if B asking
\* from its own is shown A), and a user in another bucket is not returned.
C21_BucketEquality ==
  /\ BucketEquality
  /\ \A a, b \in UserIds :
       (/\ a # b
        /\ AskedFromStored(a)
        /\ Eligible(profiles[a]) /\ Eligible(profiles[b]))
         => /\ b \in ReturnedIds <=> a \in Nearby(b)
            /\ b \in ReturnedIds <=>
                 SameBucket(The(profiles[a].latitude), The(profiles[a].longitude),
                            The(profiles[b].latitude), The(profiles[b].longitude))

\* Three named users, two in one bucket and the third in another: one of
\* the two has asked from its stored coordinate and was shown the other of
\* the two and not the third.
C21_Witness ==
  /\ \A id \in UserIds : Eligible(profiles[id])
  /\ \E a, b, c \in UserIds :
       /\ a # b /\ b # c /\ a # c
       /\ AskedFromStored(a)
       /\ ReturnedIds = {b}
       /\ profiles[c].latitude # profiles[a].latitude
       /\ a \in Nearby(b)

----------------------------------------------------------------------------
(* C22 *)

\* The rows of the table the latest call had to return: eligible, in the
\* bucket of the coordinate passed, and not the caller's.
Expected ==
  {id \in UserIds :
     /\ Eligible(profiles[id])
     /\ id # The(rpc).current_user_id
     /\ SameBucket(The(profiles[id].latitude), The(profiles[id].longitude),
                   The(rpc).user_lat, The(rpc).user_lng)}

\* C22: every row get_users_in_location_bucket returns carries
\* distance_km = 0, the rows are in ascending order of name, and there is no
\* limit: every row to return is there, once.
C22_ZeroDistanceOrderedUnlimited ==
  rpc # None =>
    /\ \A i \in DOMAIN returned : returned[i].distance_km = 0
    /\ \A i, j \in DOMAIN returned :
         i < j => NameRank(The(returned[i].name)) <= NameRank(The(returned[j].name))
    /\ Len(returned) = Cardinality(Expected)
    /\ ReturnedIds = Expected

\* A call has returned every row of the table, and the names differ.
C22_Witness ==
  /\ Len(returned) = Cardinality(UserIds)
  /\ returned[1].name # returned[Len(returned)].name

----------------------------------------------------------------------------
(* C23 *)

\* round2: latitude and longitude rounded to 2 decimals.
Rounded2(l) == Loc(NearestHundredth(l.latitude), NearestHundredth(l.longitude))

----------------------------------------------------------------------------
(* C24 *)

\* The handleLocationUpdate calls that have issued their profile write and
\* have not finished.
WritingUpdates == {op \in InFlight : op.kind = "handle"}

\* C24 as stated: handleLocationUpdate calls that overlap never write
\* distinct values; a second call that starts while the first call's write
\* is in flight issues at worst a write of the same bucket value.
C24_AsClaimed ==
  \A first, second \in WritingUpdates : first.write = second.write

----------------------------------------------------------------------------
(* C25 *)

\* This step is the call of turnOff() or the return of a suspended one.
TurnOffStep ==
  \/ ev'.op = "turnOff"
  \/ Advances("turnOff")
  \/ \E op \in InFlight : Ended(op, "turnOff")

\* C25: turnOff() aborts nothing.  Its steps leave every suspended
\* operation of another kind (watch or timer update, refreshLocation,
\* restoration) as it is, and a profile write such an operation has sent can
\* be served in every state, also after turnOff() has returned.
C25_TurnOffAbortsNothing ==
  [][ /\ TurnOffStep =>
           \A op \in InFlight :
             op.kind # "turnOff" => Copies(op, ops') = Copies(op, ops)
      /\ \A op \in InFlight :
           op.pc = "updateSent" => ENABLED ProfileUpdate(op)
    ]_vars

\* turnOff() has just returned success and isEnabled is false, while the
\* profile holds the coordinates that an update started before turnOff()
\* wrote after the null write.
C25_Witness ==
  /\ Returned("turnOff", "saved", "ok")
  /\ ~isEnabled /\ storage = "false"
  /\ profile.latitude # None /\ profile.longitude # None
  /\ \E op \in InFlight :
       /\ op.kind \in {"handle", "refresh", "restore"}
       /\ op.pc = "updateApplied"
       /\ op.write = profile

----------------------------------------------------------------------------
(* C26 *)

\* C26 as stated: the watch handle and the timer handle are paired in every
\* reachable state: both held while isTracking, both null otherwise, also
\* when the platform cannot start the watch.
C26_AsClaimed ==
  \/ isTracking /\ watchId # None /\ intervalId # None
  \/ ~isTracking /\ watchId = None /\ intervalId = None

----------------------------------------------------------------------------
(* C27 *)

\* C27: under every sequence and interleaving of initialize (repeated, with
\* restoration), turnOn, turnOff, cleanup and setCallbacks, at most one
\* geolocation watch and at most one interval timer are live; the live ones
\* are those whose handles the manager holds, and none is live while
\* isTracking is false.
C27_NoDuplicateWatches ==
  /\ Cardinality(watches) <= 1
  /\ Cardinality(timers) <= 1
  /\ watches = watchId
  /\ timers = intervalId
  /\ ~isTracking => (watches = {} /\ timers = {})

\* A restoration started by a repeated initialize() has its profile update
\* applied and is about to call startTracking, while the manager is
\* tracking already with one watch and one timer live.
C27_Witness ==
  /\ \E op \in InFlight : op.kind = "restore" /\ op.pc = "updateApplied"
  /\ isTracking /\ capable
  /\ Cardinality(watches) = 1 /\ Cardinality(timers) = 1

----------------------------------------------------------------------------
(* C28 *)

\* C28: a handleLocationUpdate call whose profile write fails ends there:
\* it issued that one write and issues nothing more, it changes neither the
\* manager's state (currentLocation included) nor the profile, and it runs
\* no callback; a sample that was a change before the failure is a change
\* after it, so the next watch sample or periodic position in that bucket
\* is not suppressed.
C28_NoRetryOnFailedWrite ==
  [][ /\ \A op \in InFlight :
           (Ended(op, "handle") /\ Returns("handle", "saved", "fail")) =>
             /\ op.nwrite = 1 /\ ev'.nwrite = 1
             /\ UNCHANGED <<mgr, userId, callbacks, storage, profile, platform>>
             /\ ~ev'.notified /\ ev'.error = NoCallback
             /\ Gate(The(op.loc)) = "write" => Gate(The(op.loc))' = "write"
      /\ \A l \in {Captured(raw) : raw \in RawPositions} :
           (/\ Returned("handle", "saved", "fail")
            /\ ev.sample = Some(l)
            /\ Gate(l) = "write")
             => ~ /\ ev'.result = "suppressed"
                  /\ ev'.sample # None
                  /\ BucketOf(The(ev'.sample)) = BucketOf(l)
    ]_vars

\* The write of a handleLocationUpdate call has just failed on a tracking
\* manager whose current location lies in another bucket, and the watch can
\* deliver the sample again to a call that writes it again.
C28_Witness ==
  /\ Returned("handle", "saved", "fail")
  /\ isEnabled /\ TrackingLive
  /\ currentLocation # None /\ ev.sample # None
  /\ hasLocationChanged(The(currentLocation), The(ev.sample))
  /\ profile = SavedCoords(The(currentLocation))
  /\ ENABLED (\E raw \in RawPositions :
                /\ Captured(raw) = The(ev.sample)
                /\ WatchSample(raw)
                /\ HandleWrites(Captured(raw)))

----------------------------------------------------------------------------
(* C29 *)

\* C29: turnOn() on a disabled manager checks the platform before it does
\* anything: without the capability the call returns a failure at once,
\* having requested no position, sent no profile write and changed nothing;
\* turnOn() requests a position only when the capability check has passed
\* (on a disabled manager with a bound user), and sends its profile write
\* only after that request.
C29_CapabilityFirst ==
  [][ /\ (~isEnabled /\ ~capable) =>
           /\ ~Advances("turnOn")
           /\ (ev'.op = "turnOn" /\ ev'.step = "call") =>
                /\ ev'.result = "fail" /\ ev'.nreq = 0 /\ ev'.nwrite = 0
                /\ ~ev'.notified
                /\ UNCHANGED <<mgr, userId, callbacks, storage, profile, platform, ops>>
      /\ Issues(AwaitPosition("turnOn")) => (capable /\ ~isEnabled /\ userId # NoUser)
      /\ \A op \in InFlight :
           (op.kind = "turnOn" /\ op.pc # "awaitPos") => (op.nreq = 1 /\ capable)
    ]_vars

\* turnOn() has just failed on a disabled manager with a bound user whose
\* platform lacks the capability; nothing is in flight and the profile
\* holds what it held.
C29_Witness ==
  /\ Returned("turnOn", "call", "fail")
  /\ userId # NoUser
  /\ ~isEnabled /\ ~capable
  /\ ops = EmptyBag
  /\ ev.nreq = 0 /\ ev.nwrite = 0
  /\ storage = "absent"

----------------------------------------------------------------------------
(* C30 *)

\* The kinds of the operations through which the manager and the logout
\* path write the profile.
PersistenceKinds == {"turnOn", "handle", "refresh", "restore", "turnOff", "logout"}

\* The latitude and longitude of every row of the table.
CoordinatesOf(table) ==
  [id \in DOMAIN table |->
     [latitude |-> table[id].latitude, longitude |-> table[id].longitude]]

\* C30 as stated: the coordinates of the signed-in user's profile change
\* only when the store serves a write of the manager (saveUserLocation,
\* turnOff's null write) or of the logout path, and no step of the client
\* changes the coordinates of any other profile.
C30_AsClaimed ==
  [][ /\ profile' # profile =>
           \E op \in InFlight :
             /\ op.kind \in PersistenceKinds /\ op.pc = "updateSent"
             /\ profile' = Patched(profile, op.write)
             /\ Resumes(op, [op EXCEPT !.pc = "updateApplied"])
      /\ CoordinatesOf(profiles') = CoordinatesOf(profiles)
    ]_vars

----------------------------------------------------------------------------
(* C31 *)

\* The kinds of the manager's asynchronous operations.
ManagerKinds == {"turnOn", "restore", "handle", "periodic", "refresh", "turnOff"}

\* No operation of the manager is suspended.
Quiescent == \A op \in InFlight : op.kind \notin ManagerKinds

\* C31 as stated: whenever the toggle is enabled and no operation of the
\* manager is in flight, the coordinates stored in the user's profile are the
\* 2-decimal bucket of the in-memory currentLocation.
C31_AsClaimed ==
  (isEnabled /\ Quiescent /\ currentLocation # None)
     => profile = SavedCoords(The(currentLocation))

----------------------------------------------------------------------------
(* C32 *)

\* C32 as stated: whenever turnOn() has returned {success: true},
\* currentLocation is non-null, also on the already-enabled path.
C32_AsClaimed ==
  (ev.op = "turnOn" /\ ev.result = "ok") => currentLocation # None

----------------------------------------------------------------------------
(* C33 *)

\* C33 as stated: in every reachable state currentLocation is null whenever
\* isEnabled is false.
C33_AsClaimed == ~isEnabled => currentLocation = None

----------------------------------------------------------------------------
(* C34: the device at rest *)

\* The buckets a captured position can lie in.
Buckets == {Captured(raw) : raw \in RawPositions}

\* The raw positions of bucket b.
RawsIn(b) == {raw \in RawPositions : Captured(raw) = b}

\* A position request that succeeds with a position of the resting bucket.
PositionIn(raw) == [ok |-> TRUE, thrown |-> FALSE, raw |-> raw]

\* The device comes to rest in bucket b while the toggle is enabled with
\* tracking live and nothing is in flight.  From here on every position is
\* one of b and every request and write succeeds.
ComesToRest(b) ==
  /\ deviceBucket = None
  /\ isEnabled /\ userId # NoUser /\ capable /\ TrackingLive
  /\ ops = EmptyBag
  /\ deviceBucket' = Some(b)
  /\ UNCHANGED <<mgr, userId, callbacks, storage, profile, platform, capable, ops, ev>>
  /\ UNCHANGED <<resolver, comparison>>

\* The timer fires while the device rests.
RestingTick ==
  /\ deviceBucket # None
  /\ TimerTick
  /\ UNCHANGED <<resolver, comparison, deviceBucket>>

\* The watch delivers a sample of the resting bucket.
RestingSample ==
  /\ deviceBucket # None
  /\ \E raw \in RawsIn(The(deviceBucket)) : WatchSample(raw)
  /\ UNCHANGED <<resolver, comparison, deviceBucket>>

\* The position request of a periodic update succeeds.
RestingPosition ==
  /\ deviceBucket # None
  /\ \E op \in InFlight : \E raw \in RawsIn(The(deviceBucket)) :
       PeriodicPosition(op, PositionIn(raw))
  /\ UNCHANGED <<resolver, comparison, deviceBucket>>

\* The store applies a profile write.
RestingUpdate ==
  /\ deviceBucket # None
  /\ \E op \in InFlight : ProfileUpdate(op)
  /\ UNCHANGED <<resolver, comparison, deviceBucket>>

\* The success reply of an applied write reaches handleLocationUpdate.
RestingSaved ==
  /\ deviceBucket # None
  /\ \E op \in InFlight : UpdateOk(op) /\ HandleSaved(op)
  /\ UNCHANGED <<resolver, comparison, deviceBucket>>

NextAtRest ==
  \/ deviceBucket = None /\ Next
  \/ \E b \in Buckets : ComesToRest(b)
  \/ RestingTick
  \/ RestingSample
  \/ RestingPosition
  \/ RestingUpdate
  \/ RestingSaved

\* The manager on a device that may come to rest: the timer keeps firing,
\* and every request and every write gets its answer.
SpecAtRest ==
  /\ Init
  /\ [][NextAtRest]_vars
  /\ WF_vars(RestingTick)
  /\ WF_vars(RestingPosition)
  /\ WF_vars(RestingUpdate)
  /\ WF_vars(RestingSaved)

\* The profile and the memory both hold bucket b.
SettledOn(b) == profile = SavedCoords(b) /\ currentLocation = Some(b)

\* C34 as stated: once the toggle is enabled with tracking live and the
\* device stays in bucket B with every later request and write succeeding
\* and the timer firing, the profile's stored coordinate and currentLocation
\* eventually both equal B, whatever failed or overlapped before.
C34_AsClaimed ==
  \A b \in Buckets : (deviceBucket = Some(b)) ~> SettledOn(b)

----------------------------------------------------------------------------
(* C35 *)

\* No callback is bound.
Detached == onLocationUpdate = NoCallback /\ onError = NoCallback

\* This step is a call of initialize() or setCallbacks().
Binds == ev'.op \in {"initialize", "setCallbacks"}

\* C35: cleanup() leaves both callbacks detached, and from then until
\* initialize() or setCallbacks() binds callbacks again no step invokes
\* onLocationUpdate or onError, the steps that complete a position request
\* or a profile write that was in flight at cleanup time included.
C35_DetachedCallbacksSilent ==
  [][ /\ Returns("cleanup", "call", "none") => Detached'
      /\ (Detached /\ ~Binds)
           => /\ Detached'
              /\ ~ev'.notified /\ ev'.to = NoCallback /\ ev'.error = NoCallback
    ]_vars

\* cleanup() has just returned with a handleLocationUpdate call's applied
\* write in flight, whose success reply can arrive and notifies nobody.
C35_Witness ==
  /\ Returned("cleanup", "call", "none")
  /\ Detached
  /\ \E op \in InFlight : op.kind = "handle" /\ op.pc = "updateApplied"
  /\ ENABLED (\E op \in InFlight :
                /\ HandleSaved(op)
                /\ ev'.result = "ok" /\ ~ev'.notified
                /\ UNCHANGED <<resolver, comparison, deviceBucket>>)

----------------------------------------------------------------------------
(* C36 *)

\* The toggle is off or no user is bound.
Disabled == ~isEnabled \/ userId = NoUser

\* C36: a watch sample or a periodic tick that begins while the toggle is
\* off or no user is bound is dropped at the guard: the step sends no
\* position request and no profile write, runs no callback and leaves
\* currentLocation and the rest of the state as they were; nothing but such
\* a call is ever dropped.
C36_DroppedWhileDisabled ==
  [][ /\ Disabled => /\ ~Issues(AwaitPosition("periodic"))
                     /\ \A raw \in RawPositions : ~HandleWrites(Captured(raw))
      /\ ev'.result = "dropped"
           => /\ Disabled
              /\ ev'.op \in {"handle", "periodic"}
              /\ ev'.nwrite = 0
              /\ ev'.step = "call" => ev'.nreq = 0
              /\ ~ev'.notified /\ ev'.error = NoCallback
              /\ UNCHANGED <<mgr, storage, profile, platform, callbacks, userId>>
              /\ \A op \in BagToSet(ops') : Copies(op, ops') <= Copies(op, ops)
    ]_vars

\* The live watch has just delivered a sample to a manager whose toggle is
\* off, and the sample was dropped.
C36_Witness ==
  /\ Returned("handle", "call", "dropped")
  /\ ~isEnabled /\ userId # NoUser
  /\ ev.sample # None
  /\ watches # {} /\ timers # {}

----------------------------------------------------------------------------
(* C37: the page is reloaded *)

\* The profile writes that have been sent and not applied yet.
SentWrites == {op.write : op \in {o \in InFlight : o.pc = "updateSent"}}

\* The page is reloaded: the module is evaluated again and the singleton is
\* constructed anew from local storage.  The old page's watches, timers and
\* continuations are gone; a write it had sent may still reach the store
\* (every write sets both coordinates, so the last one applied decides).
Reload ==
  /\ isEnabled' = LoadPersistedState(storage)
  /\ isTracking' = FALSE
  /\ watchId' = None
  /\ intervalId' = None
  /\ currentLocation' = None
  /\ userId' = NoUser
  /\ onLocationUpdate' = NoCallback
  /\ onError' = NoCallback
  /\ watches' = {}
  /\ timers' = {}
  /\ ops' = EmptyBag
  /\ profile' \in {profile} \cup {Patched(profile, w) : w \in SentWrites}
  /\ ev' = Quiet("constructor", "call", "none", 0, 0)
  /\ UNCHANGED <<storage, capable>>
  /\ UNCHANGED <<resolver, comparison, deviceBucket>>

NextWithReload ==
  \/ Next
  \/ Reload

\* The manager across reloads of the page.
SpecWithReload == Init /\ [][NextWithReload]_vars

\* The stored flag says what isEnabled says, an absent key counting as false.
Mirrors == isEnabled = (storage = "true")

====
